---- MODULE Spec2Model ----
(***************************************************************************)
(* Enrollment System API (backend/main.py, schemas.py): the subject,       *)
(* enrollment, bill and payment collections and the request handlers that  *)
(* write them, at the granularity of single store calls.                   *)
(*                                                                         *)
(* Encoding.  A collection is the sequence of its documents in insertion   *)
(* order, which is the order find_one scans.  An ObjectId is a natural     *)
(* number >= 1: a document's _id is its position in its collection (the    *)
(* handlers compare ObjectIds only within one collection).  An identifier  *)
(* string, as it travels in a request or is stored in a document field, is *)
(* a record [wf, n]: wf says whether the string is a well-formed ObjectId  *)
(* rendering, and n is the ObjectId it renders.  An optional document      *)
(* (find_one's result) is a set holding no or one document.  Money amounts *)
(* are integers.                                                           *)
(***************************************************************************)
EXTENDS Integers, Sequences, FiniteSets, TLC

\* ------------------------------------------------------------------ bounds
MaxSubjects == 1
MaxEnrollments == 2
MaxPayments == 2
MaxRequests == 3
NumProcs == 2

Procs == 1..NumProcs

\* ------------------------------------------------------------ input domains
Students == {"stu1"}
Semesters == {"2025-1", "2025-2"}
UnitsDomain == {3}
FeePerUnitDomain == {0, 100}
PaymentAmounts == {-50, 150, 300}

VARIABLES subject, enrollment, bill, payment, pc, loc, last

store == <<subject, enrollment, bill, payment>>
vars == <<subject, enrollment, bill, payment, pc, loc, last>>

\* ------------------------------------------------------------- identifiers
\* str(oid): the string rendering of an ObjectId
Str(oid) == [wf |-> TRUE, n |-> oid]

\* a string that is no ObjectId rendering
Malformed == [wf |-> FALSE, n |-> 0]

\* ObjectId(s) returns normally
ObjectIdOk(s) == s.wf

\* ObjectId(s), where it returns
ObjectId(s) == s.n

\* The identifier strings a client may send for a document of a collection:
\* a malformed one, the rendering of each ObjectId in the collection, and one
\* well-formed rendering of an ObjectId the collection does not hold (yet).
IdStrings(coll) == {Malformed} \cup {Str(i) : i \in 1..(Len(coll) + 1)}

\* ------------------------------------------------------------------- store
\* collection.find_one(filter), given the documents that match the filter in
\* insertion order: the first of them, if any
FindOne(hits) == IF hits = <<>> THEN {} ELSE {hits[1]}

\* collection.find_one({"_id": oid})
FindById(coll, oid) ==
    LET ById(d) == d._id = oid
    IN  FindOne(SelectSeq(coll, ById))

\* The ObjectId the next insert into the collection assigns
NewId(coll) == Len(coll) + 1

\* create_document(collection, data): the collection with the new document
\* under a new ObjectId; the call returns Str of that id
Inserted(coll, doc) == Append(coll, [doc EXCEPT !._id = NewId(coll)])

\* collection.update_one({"_id": oid}, {"$push": {"lines": line}})
PushLine(coll, oid, line) ==
    [i \in 1..Len(coll) |->
        IF coll[i]._id = oid
        THEN [coll[i] EXCEPT !.lines = Append(@, line)]
        ELSE coll[i]]

\* collection.update_one({"_id": oid}, {"$set": {"total": t, "status": s}})
SetTotalStatus(coll, oid, t, s) ==
    [i \in 1..Len(coll) |->
        IF coll[i]._id = oid
        THEN [coll[i] EXCEPT !.total = t, !.status = s]
        ELSE coll[i]]

\* collection.update_one({"_id": oid}, {"$set": {"paid": p, "status": s}})
SetPaidStatus(coll, oid, p, s) ==
    [i \in 1..Len(coll) |->
        IF coll[i]._id = oid
        THEN [coll[i] EXCEPT !.paid = p, !.status = s]
        ELSE coll[i]]

\* ------------------------------------------------------- handler arithmetic
RECURSIVE SumAmountsSkipsLast(_)
\* SumAmounts with the line pushed last left out of the sum
SumAmountsSkipsLast(lines) ==
    IF Len(lines) <= 1 THEN 0
    ELSE lines[1].amount + SumAmountsSkipsLast(Tail(lines))

RECURSIVE SumAmounts(_)
\* sum(float(l.get("amount", 0)) for l in lines)
SumAmounts(lines) ==
    IF lines = <<>> THEN 0
    ELSE lines[1].amount + SumAmounts(Tail(lines))

\* create_enrollment's status expression
EnrollmentStatus(paid, total) ==
    IF paid >= total /\ total > 0 THEN "paid"
    ELSE IF paid > 0 THEN "partial" ELSE "unpaid"

\* PaymentStatus without its total > 0 test
PaymentStatusNoTotalTest(paid, total) ==
    IF paid >= total THEN "paid"
    ELSE IF paid > 0 THEN "partial" ELSE "unpaid"

\* create_payment's status expression
PaymentStatus(paid, total) ==
    IF paid >= total /\ total > 0 THEN "paid"
    ELSE IF paid > 0 THEN "partial" ELSE "unpaid"

\* SubjectFee with the units factor forgotten
SubjectFeeIgnoresUnits(subjects, sid) ==
    IF ~ObjectIdOk(sid) THEN 0
    ELSE LET found == FindById(subjects, ObjectId(sid))
         IN  IF found = {} THEN 0
             ELSE LET s == CHOOSE d \in found : TRUE
                  IN  s.fee_per_unit

\* create_enrollment's fee: units * fee_per_unit of the subject the id
\* resolves to; 0.0 when ObjectId raises or no subject has the id
SubjectFee(subjects, sid) ==
    IF ~ObjectIdOk(sid) THEN 0
    ELSE LET found == FindById(subjects, ObjectId(sid))
         IN  IF found = {} THEN 0
             ELSE LET s == CHOOSE d \in found : TRUE
                  IN  s.units * s.fee_per_unit

\* ExistingEnrollments with the collection's first document skipped
ExistingEnrollmentsSkipsFirst(coll, enr) ==
    LET Same(d) == /\ d.student_id = enr.student_id
                   /\ d.subject_id = enr.subject_id
                   /\ d.semester = enr.semester
    IN  IF coll = <<>> THEN <<>> ELSE SelectSeq(Tail(coll), Same)

\* create_enrollment's duplicate query: the enrollments of the same
\* student_id, subject_id and semester
ExistingEnrollments(coll, enr) ==
    LET Same(d) == /\ d.student_id = enr.student_id
                   /\ d.subject_id = enr.subject_id
                   /\ d.semester = enr.semester
    IN  SelectSeq(coll, Same)

\* create_enrollment's bill query: the first bill of the student and semester
FindBill(coll, enr) ==
    LET Same(d) == /\ d.student_id = enr.student_id
                   /\ d.semester = enr.semester
    IN  FindOne(SelectSeq(coll, Same))

\* get_subject's response code
GetSubjectCode(subjects, sid) ==
    IF ~ObjectIdOk(sid) THEN 400                   \* ObjectId raises: caught
    ELSE IF FindById(subjects, ObjectId(sid)) = {}
         THEN 400      \* the HTTPException(404) is raised inside the try
                       \* and caught by its except Exception
         ELSE 200

\* ---------------------------------------------------------- process state
\* What create_payment keeps of the bill document it has read: the fields it
\* reads later (_id, paid, total)
View(docs) == {[_id |-> d._id, paid |-> d.paid, total |-> d.total] : d \in docs}

\* What create_enrollment keeps of a bill document it has read: the one
\* field it reads later (_id)
IdOnly(docs) == {[_id |-> d._id, paid |-> 0, total |-> 0] : d \in docs}

NoEnr == [student_id |-> "", subject_id |-> Malformed, semester |-> ""]
NoPay == [bill_id |-> Malformed, amount |-> 0]
IdleLoc == [enr |-> NoEnr, pay |-> NoPay, eid |-> Malformed, fee |-> 0,
            bill |-> {}, bill_id |-> Malformed, total |-> 0,
            status |-> "unpaid"]

\* The last response sent: the handler, the HTTP status, the "id" of its body
NoResponse == [kind |-> "none", code |-> 0, id |-> Malformed]

Response(kind, code, id) == [kind |-> kind, code |-> code, id |-> id]

TheBill(p) == CHOOSE d \in loc[p].bill : TRUE

AllIdle == \A p \in Procs : pc[p] = "idle"

\* Workers are interchangeable: a request goes to the lowest idle one
Free(p) == pc[p] = "idle" /\ \A q \in Procs : q < p => pc[q] # "idle"

InFlight(label) == Cardinality({p \in Procs : pc[p] = label})

\* The enrollments and payments accepted so far
Accepted ==
    Len(enrollment) + InFlight("enr_create")
        + Len(payment) + InFlight("pay_create")

EnrollmentInputs ==
    [student_id : Students, subject_id : IdStrings(subject),
     semester : Semesters]

PaymentInputs == [bill_id : IdStrings(bill), amount : PaymentAmounts]

Init ==
    /\ subject = <<>>
    /\ enrollment = <<>>
    /\ bill = <<>>
    /\ payment = <<>>
    /\ pc = [p \in Procs |-> "idle"]
    /\ loc = [p \in Procs |-> IdleLoc]
    /\ last = NoResponse

\* ---------------------------------------------------------------- subjects
\* POST /subjects
CreateSubject(units, fee_per_unit) ==
    /\ Len(subject) < MaxSubjects
    /\ subject' = Inserted(subject, [_id |-> 0, units |-> units,
                                     fee_per_unit |-> fee_per_unit])
    /\ last' = Response("create_subject", 200, Str(NewId(subject)))
    /\ UNCHANGED <<enrollment, bill, payment, pc, loc>>

\* GET /subjects/{subject_id}
GetSubject(sid) ==
    /\ last' = Response("get_subject", GetSubjectCode(subject, sid), Malformed)
    /\ UNCHANGED <<store, pc, loc>>

\* ------------------------------------------------------------- enrollments
\* POST /enrollments: the duplicate query and its rejection
ReceiveEnrollment(p, enr) ==
    /\ Free(p)
    /\ Len(enrollment) + InFlight("enr_create") < MaxEnrollments
    /\ Accepted < MaxRequests
    /\ IF ExistingEnrollments(enrollment, enr) # <<>>
       THEN /\ last' = Response("enrollment", 400, Malformed)
            /\ UNCHANGED <<pc, loc>>
       ELSE /\ pc' = [pc EXCEPT ![p] = "enr_create"]
            /\ loc' = [loc EXCEPT ![p] = [IdleLoc EXCEPT !.enr = enr]]
            /\ UNCHANGED last
    /\ UNCHANGED store

\* eid = create_document("enrollment", enr)
EnrCreate(p) ==
    /\ pc[p] = "enr_create"
    /\ enrollment' = Inserted(enrollment,
                         [_id |-> 0,
                          student_id |-> loc[p].enr.student_id,
                          subject_id |-> loc[p].enr.subject_id,
                          semester |-> loc[p].enr.semester])
    /\ loc' = [loc EXCEPT ![p].eid = Str(NewId(enrollment))]
    /\ pc' = [pc EXCEPT ![p] = "enr_subject"]
    /\ UNCHANGED <<subject, bill, payment, last>>

\* the subject lookup and the fee
EnrSubject(p) ==
    /\ pc[p] = "enr_subject"
    /\ loc' = [loc EXCEPT ![p].fee = SubjectFee(subject, loc[p].enr.subject_id)]
    /\ pc' = [pc EXCEPT ![p] = "enr_find_bill"]
    /\ UNCHANGED <<store, last>>

\* bill = db["bill"].find_one({student_id, semester})
EnrFindBill(p) ==
    /\ pc[p] = "enr_find_bill"
    /\ LET found == FindBill(bill, loc[p].enr)
       IN  /\ loc' = [loc EXCEPT ![p].bill = IdOnly(found)]
           /\ pc' = [pc EXCEPT ![p] =
                        IF found = {} THEN "enr_create_bill" ELSE "enr_push"]
    /\ UNCHANGED <<store, last>>

\* bill_id = create_document("bill", BillSchema(...))
EnrCreateBill(p) ==
    /\ pc[p] = "enr_create_bill"
    /\ bill' = Inserted(bill, [_id |-> 0,
                               student_id |-> loc[p].enr.student_id,
                               semester |-> loc[p].enr.semester,
                               lines |-> <<>>, total |-> 0, paid |-> 0,
                               status |-> "unpaid"])
    /\ loc' = [loc EXCEPT ![p].bill_id = Str(NewId(bill))]
    /\ pc' = [pc EXCEPT ![p] = "enr_fetch_bill"]
    /\ UNCHANGED <<subject, enrollment, payment, last>>

\* bill = db["bill"].find_one({"_id": ObjectId(bill_id)})
EnrFetchBill(p) ==
    /\ pc[p] = "enr_fetch_bill"
    /\ loc' = [loc EXCEPT ![p].bill =
                  IdOnly(FindById(bill, ObjectId(loc[p].bill_id)))]
    /\ pc' = [pc EXCEPT ![p] = "enr_push"]
    /\ UNCHANGED <<store, last>>

\* the $push of the new line
EnrPush(p) ==
    /\ pc[p] = "enr_push"
    /\ bill' = PushLine(bill, TheBill(p)._id,
                        [subject_id |-> loc[p].enr.subject_id,
                         amount |-> loc[p].fee])
    /\ pc' = [pc EXCEPT ![p] = "enr_reread"]
    /\ UNCHANGED <<subject, enrollment, payment, loc, last>>

\* the re-read of the bill, and total and status computed from it
EnrReread(p) ==
    /\ pc[p] = "enr_reread"
    /\ LET fresh == FindById(bill, TheBill(p)._id)
           doc == CHOOSE d \in fresh : TRUE
           total == SumAmounts(doc.lines)
       IN  loc' = [loc EXCEPT ![p].bill = IdOnly(fresh),
                              ![p].total = total,
                              ![p].status = EnrollmentStatus(doc.paid, total)]
    /\ pc' = [pc EXCEPT ![p] = "enr_set"]
    /\ UNCHANGED <<store, last>>

\* the $set of total and status, and the response
EnrSet(p) ==
    /\ pc[p] = "enr_set"
    /\ bill' = SetTotalStatus(bill, TheBill(p)._id, loc[p].total,
                              loc[p].status)
    /\ last' = Response("enrollment", 200, loc[p].eid)
    /\ pc' = [pc EXCEPT ![p] = "idle"]
    /\ loc' = [loc EXCEPT ![p] = IdleLoc]
    /\ UNCHANGED <<subject, enrollment, payment>>

\* ---------------------------------------------------------------- payments
\* POST /payments: the bill lookup and its failures
ReceivePayment(p, pay) ==
    /\ Free(p)
    /\ Len(payment) + InFlight("pay_create") < MaxPayments
    /\ Accepted < MaxRequests
    /\ IF ~ObjectIdOk(pay.bill_id)
       THEN \* ObjectId raises InvalidId, which nothing catches
            /\ last' = Response("payment", 500, Malformed)
            /\ UNCHANGED <<pc, loc>>
       ELSE LET found == FindById(bill, ObjectId(pay.bill_id))
            IN  IF found = {}
                THEN /\ last' = Response("payment", 404, Malformed)
                     /\ UNCHANGED <<pc, loc>>
                ELSE /\ pc' = [pc EXCEPT ![p] = "pay_create"]
                     /\ loc' = [loc EXCEPT ![p] =
                                   [IdleLoc EXCEPT !.pay = pay,
                                                   !.bill = View(found)]]
                     /\ UNCHANGED last
    /\ UNCHANGED store

\* pid = create_document("payment", {...})
PayCreate(p) ==
    /\ pc[p] = "pay_create"
    /\ payment' = Inserted(payment, [_id |-> 0,
                                     bill_id |-> loc[p].pay.bill_id,
                                     amount |-> loc[p].pay.amount])
    /\ loc' = [loc EXCEPT ![p].eid = Str(NewId(payment))]
    /\ pc' = [pc EXCEPT ![p] = "pay_set"]
    /\ UNCHANGED <<subject, enrollment, bill, last>>

\* paid and status from the snapshot, their $set, and the response
PaySet(p) ==
    /\ pc[p] = "pay_set"
    /\ LET paid == TheBill(p).paid + loc[p].pay.amount
           status == PaymentStatus(paid, TheBill(p).total)
       IN  bill' = SetPaidStatus(bill, TheBill(p)._id, paid, status)
    /\ last' = Response("payment", 200, loc[p].eid)
    /\ pc' = [pc EXCEPT ![p] = "idle"]
    /\ loc' = [loc EXCEPT ![p] = IdleLoc]
    /\ UNCHANGED <<subject, enrollment, payment>>

\* ----------------------------------------------------------- specifications
Receive ==
    \/ \E u \in UnitsDomain, f \in FeePerUnitDomain : CreateSubject(u, f)
    \/ \E sid \in IdStrings(subject) : GetSubject(sid)
    \/ \E p \in Procs, enr \in EnrollmentInputs : ReceiveEnrollment(p, enr)
    \/ \E p \in Procs, pay \in PaymentInputs : ReceivePayment(p, pay)

Step ==
    \E p \in Procs :
        \/ EnrCreate(p)
        \/ EnrSubject(p)
        \/ EnrFindBill(p)
        \/ EnrCreateBill(p)
        \/ EnrFetchBill(p)
        \/ EnrPush(p)
        \/ EnrReread(p)
        \/ EnrSet(p)
        \/ PayCreate(p)
        \/ PaySet(p)

\* Requests run one at a time, each to completion
SeqNext ==
    \/ AllIdle /\ Receive
    \/ Step

\* Requests interleave at the granularity of store calls
ConcNext ==
    \/ Receive
    \/ Step

Spec == Init /\ [][SeqNext]_vars

SpecConc == Init /\ [][ConcNext]_vars

\* ------------------------------------------------------------------ claims
RECURSIVE LinesTotal(_, _)
\* The sum of the amounts of lines n+1 .. Len(lines), by position
LinesTotal(lines, n) ==
    IF n >= Len(lines) THEN 0
    ELSE lines[n + 1].amount + LinesTotal(lines, n + 1)

\* The Status Rule as the specification words it
StatusRule(paid, total) ==
    CASE paid >= total /\ total > 0 -> "paid"
      [] ~(paid >= total /\ total > 0) /\ paid > 0 -> "partial"
      [] OTHER -> "unpaid"

Bills == 1..Len(bill)

EnrollmentLabels == {"enr_create", "enr_subject", "enr_find_bill",
                     "enr_create_bill", "enr_fetch_bill", "enr_push",
                     "enr_reread", "enr_set"}

PaymentLabels == {"pay_create", "pay_set"}

NoEnrollmentInFlight == \A p \in Procs : pc[p] \notin EnrollmentLabels

NoPaymentInFlight == \A p \in Procs : pc[p] \notin PaymentLabels

\* C1: with requests run one at a time, after each request every stored
\* bill's total is the sum of the amounts of its stored lines.
C1_TotalIsSumOfLines ==
    AllIdle => \A i \in Bills : bill[i].total = LinesTotal(bill[i].lines, 0)

\* C1's case: a bill that took two lines and a payment, with a positive total
C1_Witness ==
    /\ AllIdle
    /\ \E i \in Bills : /\ Len(bill[i].lines) = 2
                        /\ bill[i].total > 0
                        /\ bill[i].paid > 0

\* C2: with requests run one at a time, after each request every stored
\* bill's status is the Status Rule's value for its own paid and total; a
\* bill with total = 0 is never "paid".
C2_StatusFollowsRule ==
    AllIdle =>
        \A i \in Bills :
            /\ bill[i].status = StatusRule(bill[i].paid, bill[i].total)
            /\ bill[i].total = 0 => bill[i].status # "paid"

\* C2's case: a payment was taken into a bill whose total is 0
C2_Witness ==
    /\ AllIdle
    /\ last.kind = "payment" /\ last.code = 200
    /\ \E i \in Bills : /\ bill[i].total = 0
                        /\ bill[i].paid > 0
                        /\ bill[i].status = "partial"

\* C3: no step of any execution, interleaved or not, lowers a bill's paid.
C3_PaidNeverDecreases ==
    [][\A i \in Bills : bill'[i].paid >= bill[i].paid]_vars

\* C4: the store never holds two bills of the same student and semester,
\* also when create-enrollment requests interleave.
C4_OneBillPerKey ==
    \A i, j \in Bills :
        (/\ bill[i].student_id = bill[j].student_id
         /\ bill[i].semester = bill[j].semester) => i = j

\* An enrollment of enr's student, subject and semester is persisted
AlreadyEnrolled(enr) ==
    \E k \in 1..Len(enrollment) :
        /\ enrollment[k].student_id = enr.student_id
        /\ enrollment[k].subject_id = enr.subject_id
        /\ enrollment[k].semester = enr.semester

\* C5: a create-enrollment request whose triple is already enrolled is
\* answered 400 and ends there, with every collection (enrollments, bills
\* and their lines, total, paid and status) unchanged.
C5_DuplicateRejected ==
    [][\A p \in Procs : \A enr \in EnrollmentInputs :
          (ReceiveEnrollment(p, enr) /\ AlreadyEnrolled(enr)) =>
              /\ last'.kind = "enrollment"
              /\ last'.code = 400
              /\ pc' = pc
              /\ UNCHANGED store]_vars

\* C5's case: a duplicate was rejected while its student already had a bill
C5_Witness ==
    /\ last.kind = "enrollment"
    /\ last.code = 400
    /\ enrollment # <<>>
    /\ bill # <<>>

\* The fee the claim expects for a subject id string: units * fee_per_unit
\* of the stored subject it names, 0 when it names none
ExpectedFee(sid) ==
    IF sid.wf /\ sid.n \in 1..Len(subject)
    THEN subject[sid.n].units * subject[sid.n].fee_per_unit
    ELSE 0

\* Process p's push appends one line, of the expected amount, to one bill of
\* its enrollment's student and semester, and changes nothing else of any bill
PushedOneLine(p) ==
    /\ Len(bill') = Len(bill)
    /\ \E i \in Bills :
        /\ bill[i].student_id = loc[p].enr.student_id
        /\ bill[i].semester = loc[p].enr.semester
        /\ bill'[i] = [bill[i] EXCEPT !.lines =
              Append(@, [subject_id |-> loc[p].enr.subject_id,
                         amount |-> ExpectedFee(loc[p].enr.subject_id)])]
        /\ \A j \in Bills : j # i => bill'[j] = bill[j]

\* Process p's response is 200 with the id of a persisted enrollment of its
\* request's triple
ReturnedEnrollment(p) ==
    /\ last'.kind = "enrollment"
    /\ last'.code = 200
    /\ last'.id.wf
    /\ last'.id.n \in 1..Len(enrollment)
    /\ enrollment[last'.id.n].student_id = loc[p].enr.student_id
    /\ enrollment[last'.id.n].subject_id = loc[p].enr.subject_id
    /\ enrollment[last'.id.n].semester = loc[p].enr.semester

\* The lines on the bills of a student and semester, counted
LinesOfKey(student_id, semester) ==
    LET Of(i) == IF /\ bill[i].student_id = student_id
                    /\ bill[i].semester = semester
                 THEN Len(bill[i].lines) ELSE 0
        sum[i \in 0..Len(bill)] == IF i = 0 THEN 0 ELSE Of(i) + sum[i - 1]
    IN  sum[Len(bill)]

EnrollmentsOfKey(student_id, semester) ==
    Cardinality({k \in 1..Len(enrollment) :
                    /\ enrollment[k].student_id = student_id
                    /\ enrollment[k].semester = semester})

\* C6: with requests run one at a time, a create-enrollment request that
\* succeeds appends exactly one line to the bill of its student and
\* semester, of amount units * fee_per_unit of the subject its subject id
\* resolves to and 0 when it resolves to none (absent or malformed), and
\* returns the id of the enrollment it persisted.
C6_OneLinePerEnrollment ==
    [][/\ \A p \in Procs : EnrPush(p) => PushedOneLine(p)
       /\ \A p \in Procs : EnrSet(p) => ReturnedEnrollment(p)
       /\ AllIdle' =>
            \A st \in Students, sem \in Semesters :
                LinesOfKey(st, sem)' = EnrollmentsOfKey(st, sem)']_vars

\* C6's case: a bill holding a resolved subject's line and the zero line of
\* an enrollment whose subject id is malformed, the enrollment acknowledged
C6_Witness ==
    /\ AllIdle
    /\ last.kind = "enrollment" /\ last.code = 200
    /\ \E i \in Bills :
        \E a, b \in 1..Len(bill[i].lines) :
            /\ bill[i].lines[a].amount = 300
            /\ ~bill[i].lines[b].subject_id.wf
            /\ bill[i].lines[b].amount = 0

\* The id string names a stored bill
ResolvesToBill(s) == s.wf /\ \E i \in Bills : bill[i]._id = s.n

\* C7: a create-payment request whose bill_id resolves to no stored bill is
\* answered 404 and ends there, with every collection unchanged.
C7_UnknownBillIs404 ==
    [][\A p \in Procs : \A pay \in PaymentInputs :
          (ReceivePayment(p, pay) /\ ~ResolvesToBill(pay.bill_id)) =>
              /\ last'.kind = "payment"
              /\ last'.code = 404
              /\ pc' = pc
              /\ UNCHANGED store]_vars

\* C8: get-subject-by-id answers 400 to a malformed id, 404 to a well-formed
\* id of no stored subject, and 200 to the id of a stored subject.
C8_GetSubjectCodes ==
    [][\A sid \in IdStrings(subject) :
          GetSubject(sid) =>
              last'.code = IF ~sid.wf THEN 400
                           ELSE IF sid.n \in 1..Len(subject) THEN 200
                           ELSE 404]_vars

\* C9: once every interleaved create-enrollment request has completed, each
\* bill's total is the sum of the amounts of all lines stored on it.
C9_TotalAfterConcurrentAppends ==
    NoEnrollmentInFlight =>
        \A i \in Bills : LinesTotal(bill[i].lines, 0) = bill[i].total

\* The sum of the amounts of the persisted payments n+1 .. Len(payment) whose
\* bill_id names the bill
RECURSIVE PaidInto(_, _)
PaidInto(oid, n) ==
    IF n >= Len(payment) THEN 0
    ELSE (IF payment[n + 1].bill_id = Str(oid)
          THEN payment[n + 1].amount ELSE 0) + PaidInto(oid, n + 1)

\* C10: whenever no create-payment request is mid-flight, each bill's paid
\* is the sum of the amounts of the persisted payments that reference it,
\* also when create-payment requests on one bill interleave.
C10_PaidIsSumOfPayments ==
    NoPaymentInFlight =>
        \A i \in Bills : bill[i].paid = PaidInto(bill[i]._id, 0)

====
